---- MODULE Spec2Model ----
(***************************************************************************)
(* A model of src/src/synthesize.rs: the edge-tts protocol session         *)
(* (process_socket_data), the header parser (parse_headers), the request   *)
(* id generator (random_request_id) and the Sec-MS-GEC token generator     *)
(* (generate_sec_ms_gec_sync).                                             *)
(*                                                                         *)
(* A Rust String is a sequence of one-character strings; a Vec<u8> is a    *)
(* sequence of integers 0..255.                                            *)
(***************************************************************************)
EXTENDS Integers, Sequences, FiniteSets, TLC

VARIABLES
    state,          \* Handshaking, Streaming, Completed, Failed or Panicked
    sent,           \* the messages socket.send accepted, in order
    request_id,     \* the String random_request_id returned, <<>> before it
    buf,            \* the Vec<u8> buf of process_socket_data
    result,         \* what process_socket_data returned, if it has
    last,           \* the outcome of the latest socket.read()
    nrecv,          \* how many times socket.read() has returned
    expected,       \* history: the payloads of the audio frames addressed to
                    \* this session, by the wire format, in arrival order
    ssml,           \* the ssml argument
    output_format,  \* the output_format argument
    now,            \* the wall clock, seconds since the Unix epoch
    nticks,         \* how many times the clock was advanced
    calls,          \* the calls of generate_sec_ms_gec_sync made so far
    markup_args,    \* the arguments of the latest call of build_ssml
    markup,         \* what that call returned, <<>> before any call
    parsed_block,   \* the argument of the latest call of parse_headers
    parsed          \* what that call returned, if it was made

sessionVars == <<state, sent, request_id, buf, result, last, nrecv, expected,
                 ssml, output_format>>

tokenVars == <<now, nticks, calls>>

markupVars == <<markup_args, markup>>

headerVars == <<parsed_block, parsed>>

vars == <<state, sent, request_id, buf, result, last, nrecv, expected,
          ssml, output_format, now, nticks, calls, markup_args, markup,
          parsed_block, parsed>>

-----------------------------------------------------------------------------
(* Bounds of the model.                                                    *)

\* socket.read() returns at most this many times in one session.
MaxRecv == 3

\* random_request_id fills a buffer of this many bytes (the program's has 16).
IdBytes == 1

\* The clock is advanced at most this many times.
MaxTicks == 2

\* generate_sec_ms_gec_sync is called at most this many times.
MaxCalls == 3

\* The text given to build_ssml has at most this many characters.
MaxText == 2

\* The voice name given to build_ssml has at most this many characters.
MaxVoice == 1

\* The header blocks parsed on their own have at most this many characters.
MaxBlock == 4

\* The earliest clock value, seconds since the Unix epoch.
ClockStart == 1793491200

-----------------------------------------------------------------------------
(* Text.                                                                   *)

CRLF == <<"\r", "\n">>

BlankLine == <<"\r", "\n", "\r", "\n">>

Colon == <<":">>

PathName == <<"P", "a", "t", "h">>

RequestIdName == <<"X", "-", "R", "e", "q", "u", "e", "s", "t", "I", "d">>

TurnEnd == <<"t", "u", "r", "n", ".", "e", "n", "d">>

Audio == <<"a", "u", "d", "i", "o">>

TurnStart == <<"t", "u", "r", "n", ".", "s", "t", "a", "r", "t">>

\* The characters of the ASCII range, by code point (index = code + 1).
Ascii ==
  <<
      "^00", "^01", "^02", "^03", "^04", "^05", "^06", "^07", "^08", "\t", "\n", "^0B", "\f", "\r", "^0E", "^0F",
      "^10", "^11", "^12", "^13", "^14", "^15", "^16", "^17", "^18", "^19", "^1A", "^1B", "^1C", "^1D", "^1E", "^1F",
      " ", "!", "\"", "#", "$", "%", "&", "'", "(", ")", "*", "+", ",", "-", ".", "/",
      "0", "1", "2", "3", "4", "5", "6", "7", "8", "9", ":", ";", "<", "=", ">", "?",
      "@", "A", "B", "C", "D", "E", "F", "G", "H", "I", "J", "K", "L", "M", "N", "O",
      "P", "Q", "R", "S", "T", "U", "V", "W", "X", "Y", "Z", "[", "\\", "]", "^", "_",
      "^60", "a", "b", "c", "d", "e", "f", "g", "h", "i", "j", "k", "l", "m", "n", "o",
      "p", "q", "r", "s", "t", "u", "v", "w", "x", "y", "z", "{", "|", "}", "~", "^7F" >>

\* U+FFFD, what a lossy decoder puts in the place of a byte that is no UTF-8.
ReplacementChar == "U+FFFD"

CodeOf(c) == CHOOSE b \in 0..127 : Ascii[b + 1] = c

\* str::as_bytes of an ASCII string.
AsBytes(s) == [i \in 1..Len(s) |-> CodeOf(s[i])]

\* String::from_utf8_lossy, for bytes that are ASCII or are no part of any
\* valid UTF-8 sequence (each such byte becomes one U+FFFD).
from_utf8_lossy(bytes) ==
  [i \in 1..Len(bytes) |->
     IF bytes[i] < 128 THEN Ascii[bytes[i] + 1] ELSE ReplacementChar]

Drop(s, n) == SubSeq(s, n + 1, Len(s))

MatchesAt(s, pat, i) ==
  /\ i + Len(pat) - 1 <= Len(s)
  /\ SubSeq(s, i, i + Len(pat) - 1) = pat

\* str::find: the first position where pat starts in s, 0 when there is none.
Find(s, pat) ==
  LET hits == {i \in 1..Len(s) : MatchesAt(s, pat, i)}
  IN  IF hits = {} THEN 0 ELSE CHOOSE i \in hits : \A j \in hits : i <= j

RECURSIVE Split(_, _)
\* str::split(pat): every piece between occurrences of pat, empty ones kept.
Split(s, pat) ==
  LET i == Find(s, pat)
  IN  IF i = 0 THEN <<s>>
      ELSE <<SubSeq(s, 1, i - 1)>> \o Split(Drop(s, i + Len(pat) - 1), pat)

\* str::splitn(2, pat): s itself when pat does not occur, else the part
\* before the first occurrence and all that follows it.
Splitn2(s, pat) ==
  LET i == Find(s, pat)
  IN  IF i = 0 THEN <<s>>
      ELSE <<SubSeq(s, 1, i - 1), Drop(s, i + Len(pat) - 1)>>

\* A mutant of header_pair: the value loses the space after the colon.
header_pair_trimmed(line) ==
  LET iter == Splitn2(line, Colon)
      v == IF Len(iter) >= 2 THEN iter[2] ELSE <<>>
  IN  <<iter[1], IF v # <<>> /\ v[1] = " " THEN Tail(v) ELSE v>>

\* One line of a header block: (text before the first colon, text after it).
header_pair(line) ==
  LET iter == Splitn2(line, Colon)
  IN  <<iter[1], IF Len(iter) >= 2 THEN iter[2] ELSE <<>>>>

parse_headers(s) ==
  LET lines == SelectSeq(Split(s, CRLF), LAMBDA l : Len(l) > 0)
  IN  [i \in 1..Len(lines) |-> header_pair(lines[i])]

\* headers.iter().any(|(k, v)| k == name && v == value)
any_header(headers, name, value) ==
  \E i \in 1..Len(headers) : headers[i] = <<name, value>>

-----------------------------------------------------------------------------
(* random_request_id.                                                      *)

HexDigits ==
  <<"0", "1", "2", "3", "4", "5", "6", "7", "8", "9", "a", "b", "c", "d", "e", "f">>

RECURSIVE hex_encode(_)
\* hex::encode: two lower-case digits per byte, high nibble first.
hex_encode(bytes) ==
  IF bytes = <<>> THEN <<>>
  ELSE <<HexDigits[(bytes[1] \div 16) + 1], HexDigits[(bytes[1] % 16) + 1]>>
         \o hex_encode(Tail(bytes))

\* The buffers fill_bytes leaves in the model: every byte 0xab, or every
\* byte 0xcd.
RandomBuffers == {[i \in 1..IdBytes |-> b] : b \in {171, 205}}

random_request_id(random) == hex_encode(random)

\* Every value random_request_id can return.
RequestIds == {random_request_id(random) : random \in RandomBuffers}

-----------------------------------------------------------------------------
(* What the transport can deliver: tungstenite's Message.                  *)

PathLine(v) == PathName \o Colon \o v

RequestIdLine(r) == RequestIdName \o Colon \o r

PathLines == {PathLine(Audio), PathLine(TurnEnd), PathLine(TurnStart)}

RequestIdLines == {RequestIdLine(r) : r \in RequestIds}

RECURSIVE JoinLines(_)
JoinLines(lines) ==
  IF lines = <<>> THEN <<>>
  ELSE IF Len(lines) = 1 THEN lines[1]
  ELSE lines[1] \o CRLF \o JoinLines(Tail(lines))

\* The header lines of the frames delivered: none, a Path, an X-RequestId,
\* both in either order, and a repeated Path or X-RequestId.
HeaderLineSeqs ==
  {<<>>}
    \cup {<<p>> : p \in PathLines}
    \cup {<<x>> : x \in RequestIdLines}
    \cup {<<p, x>> : p \in PathLines, x \in RequestIdLines}
    \cup {<<x, p>> : p \in PathLines, x \in RequestIdLines}
    \cup {<<p, x[1], x[2]>> : p \in PathLines,
            x \in {y \in RequestIdLines \X RequestIdLines : y[1] # y[2]}}
    \cup {<<p[1], p[2], x>> : x \in RequestIdLines,
            p \in {q \in PathLines \X PathLines : q[1] # q[2]}}

\* Header blocks, with and without a CRLF after the last line.
HeaderBlocks == {JoinLines(ls) \o t : ls \in HeaderLineSeqs, t \in {<<>>, CRLF}}

\* Bodies of text messages: empty, or text that reads like a header block.
TextBodies ==
  {<<>>} \cup {JoinLines(<<PathLine(TurnEnd), RequestIdLine(r)>>) : r \in RequestIds}

\* Text messages: a header block and a blank line; a header block of at most
\* one line, a blank line and a body; and a header block with no blank line.
TextMessages ==
  {h \o BlankLine : h \in HeaderBlocks}
    \cup {JoinLines(ls) \o BlankLine \o b :
            ls \in {l \in HeaderLineSeqs : Len(l) <= 1}, b \in TextBodies}
    \cup HeaderBlocks

Payloads == {<<65, 66>>, <<67, 68>>}

\* A binary message that declares `declared` bytes of header block.
Frame(declared, block, payload) ==
  <<declared \div 256, declared % 256>> \o AsBytes(block) \o payload

BinaryMessages ==
  {Frame(Len(h), h, p) : h \in HeaderBlocks, p \in Payloads}
    \cup {Frame(Len(JoinLines(ls)) + 3, JoinLines(ls), <<65, 66>>) :
            ls \in HeaderLineSeqs}
    \cup {<<>>, <<0>>, <<0, 0>>, <<0, 1, 80>>, <<0, 5, 80, 97>>,
          <<0, 5, 80, 97, 116, 104, 58>>, <<0, 2, 255, 254, 65>>}

OtherKinds == {"Ping", "Pong", "Close", "Frame"}

Text(s) == [kind |-> "Text", data |-> s]

Binary(s) == [kind |-> "Binary", data |-> s]

Other(k) == [kind |-> k, data |-> <<>>]

NoMessage == [kind |-> "None", data |-> <<>>]

ReadError == [kind |-> "Error", data |-> <<>>]

-----------------------------------------------------------------------------
(* process_socket_data: the two sends.                                     *)

ConfigHead ==
  <<"C", "o", "n", "t", "e", "n", "t", "-", "T", "y", "p", "e", ":", "a",
    "p", "p", "l", "i", "c", "a", "t", "i", "o", "n", "/", "j", "s", "o",
    "n", ";", " ", "c", "h", "a", "r", "s", "e", "t", "=", "u", "t", "f",
    "-", "8", "\r", "\n", "P", "a", "t", "h", ":", "s", "p", "e", "e", "c",
    "h", ".", "c", "o", "n", "f", "i", "g", "\r", "\n", "\r", "\n", "{",
    "\"", "c", "o", "n", "t", "e", "x", "t", "\"", ":", "{", "\"", "s",
    "y", "n", "t", "h", "e", "s", "i", "s", "\"", ":", "{", "\"", "a", "u",
    "d", "i", "o", "\"", ":", "{", "\"", "m", "e", "t", "a", "d", "a", "t",
    "a", "o", "p", "t", "i", "o", "n", "s", "\"", ":", "{", "\"", "s", "e",
    "n", "t", "e", "n", "c", "e", "B", "o", "u", "n", "d", "a", "r", "y",
    "E", "n", "a", "b", "l", "e", "d", "\"", ":", "f", "a", "l", "s", "e",
    ",", "\"", "w", "o", "r", "d", "B", "o", "u", "n", "d", "a", "r", "y",
    "E", "n", "a", "b", "l", "e", "d", "\"", ":", "t", "r", "u", "e", "}",
    ",", "\"", "o", "u", "t", "p", "u", "t", "F", "o", "r", "m", "a", "t",
    "\"", ":", "\"">>

ConfigTail ==
  <<"\"", "}", "}", "}", "}">>

SsmlHead ==
  <<"\r", "\n", "C", "o", "n", "t", "e", "n", "t", "-", "T", "y", "p", "e",
    ":", "a", "p", "p", "l", "i", "c", "a", "t", "i", "o", "n", "/", "s",
    "s", "m", "l", "+", "x", "m", "l", "\r", "\n", "P", "a", "t", "h", ":",
    "s", "s", "m", "l", "\r", "\n", "\r", "\n">>

config_message(fmt) == ConfigHead \o fmt \o ConfigTail

ssml_message(id, document) == RequestIdName \o Colon \o id \o SsmlHead \o document

OutputFormats == {<<"m", "p", "3">>}

Ssmls == {<<"<", "s", "p", "e", "a", "k", "/", ">">>}

\* No call of parse_headers was made.
NotParsed == [done |-> FALSE, headers |-> <<>>]

\* No call of build_ssml was made.
NoArgs == [text |-> <<>>, voice |-> <<>>, pitch |-> <<>>, rate |-> <<>>, volume |-> <<>>]

Pending == [tag |-> "Pending", bytes |-> <<>>, error |-> ""]

Ok(bytes) == [tag |-> "Ok", bytes |-> bytes, error |-> ""]

Err(e) == [tag |-> "Err", bytes |-> <<>>, error |-> e]

Init ==
  /\ state = "Handshaking"
  /\ sent = <<>>
  /\ request_id = <<>>
  /\ buf = <<>>
  /\ result = Pending
  /\ last = NoMessage
  /\ nrecv = 0
  /\ expected = <<>>
  /\ ssml \in Ssmls
  /\ output_format \in OutputFormats
  /\ now = ClockStart
  /\ nticks = 0
  /\ calls = <<>>
  /\ markup_args = NoArgs
  /\ markup = <<>>
  /\ parsed_block = <<>>
  /\ parsed = NotParsed

\* socket.send(Message::Text(config))?
SendConfig ==
  /\ state = "Handshaking"
  /\ sent = <<>>
  /\ \E ok \in BOOLEAN :
       IF ok
       THEN /\ sent' = <<config_message(output_format)>>
            /\ UNCHANGED <<state, result>>
       ELSE /\ state' = "Failed"
            /\ result' = Err("send error")
            /\ UNCHANGED sent
  /\ UNCHANGED <<request_id, buf, last, nrecv, expected, ssml, output_format>>
  /\ UNCHANGED <<tokenVars, markupVars, headerVars>>

\* let request_id = random_request_id(); socket.send(Message::Text(ssml))?;
\* let mut buf = Vec::new();
SendSsml ==
  /\ state = "Handshaking"
  /\ Len(sent) = 1
  /\ \E random \in RandomBuffers, ok \in BOOLEAN :
       /\ request_id' = random_request_id(random)
       /\ IF ok
          THEN /\ sent' = Append(sent, ssml_message(request_id', ssml))
               /\ state' = "Streaming"
               /\ UNCHANGED result
          ELSE /\ state' = "Failed"
               /\ result' = Err("send error")
               /\ UNCHANGED sent
  /\ buf' = <<>>
  /\ UNCHANGED <<last, nrecv, expected, ssml, output_format>>
  /\ UNCHANGED <<tokenVars, markupVars, headerVars>>

-----------------------------------------------------------------------------
(* build_ssml, with escape_str_attribute and escape_str_pcdata of xml-rs.  *)

RECURSIVE Concat(_)
\* The strings of a sequence, joined.
Concat(parts) == IF parts = <<>> THEN <<>> ELSE Head(parts) \o Concat(Tail(parts))

Lt == <<"&", "l", "t", ";">>

Gt == <<"&", "g", "t", ";">>

Quot == <<"&", "q", "u", "o", "t", ";">>

Apos == <<"&", "a", "p", "o", "s", ";">>

Amp == <<"&", "a", "m", "p", ";">>

LineFeedRef == <<"&", "#", "x", "A", ";">>

CarriageReturnRef == <<"&", "#", "x", "D", ";">>

\* AttributeEscapes: what one character of an attribute value becomes.
attribute_escape(c) ==
  CASE c = "<" -> Lt
    [] c = ">" -> Gt
    [] c = "\"" -> Quot
    [] c = "'" -> Apos
    [] c = "&" -> Amp
    [] c = "\n" -> LineFeedRef
    [] c = "\r" -> CarriageReturnRef
    [] OTHER -> <<c>>

\* PcDataEscapes: what one character of character data becomes.
pcdata_escape(c) ==
  CASE c = "<" -> Lt
    [] c = ">" -> Gt
    [] c = "&" -> Amp
    [] OTHER -> <<c>>

escape_str_attribute(s) == Concat([i \in 1..Len(s) |-> attribute_escape(s[i])])

escape_str_pcdata(s) == Concat([i \in 1..Len(s) |-> pcdata_escape(s[i])])

SpeakOpen ==
  <<"<", "s", "p", "e", "a", "k", " ", "v", "e", "r", "s", "i", "o", "n",
    "=", "\"", "1", ".", "0", "\"", " ", "x", "m", "l", "n", "s", "=",
    "\"", "h", "t", "t", "p", ":", "/", "/", "w", "w", "w", ".", "w", "3",
    ".", "o", "r", "g", "/", "2", "0", "0", "1", "/", "1", "0", "/", "s",
    "y", "n", "t", "h", "e", "s", "i", "s", "\"", " ", "x", "m", "l", "n",
    "s", ":", "m", "s", "t", "t", "s", "=", "\"", "h", "t", "t", "p", "s",
    ":", "/", "/", "w", "w", "w", ".", "w", "3", ".", "o", "r", "g", "/",
    "2", "0", "0", "1", "/", "m", "s", "t", "t", "s", "\"", " ", "x", "m",
    "l", ":", "l", "a", "n", "g", "=", "\"", "e", "n", "-", "U", "S", "\"",
    ">", "<", "v", "o", "i", "c", "e", " ", "n", "a", "m", "e", "=", "\"">>

PitchAttr == <<"\"", ">", "<", "p", "r", "o", "s", "o", "d", "y", " ", "p", "i", "t", "c", "h", "=", "\"">>

RateAttr == <<"\"", " ", "r", "a", "t", "e", "=", "\"">>

VolumeAttr == <<"\"", " ", "v", "o", "l", "u", "m", "e", "=", "\"">>

ProsodyOpenEnd == <<"\"", ">">>

SpeakClose ==
  <<"<", "/", "p", "r", "o", "s", "o", "d", "y", ">", "<", "/", "v", "o",
    "i", "c", "e", ">", "<", "/", "s", "p", "e", "a", "k", ">">>

\* A mutant of build_ssml: the text is inserted as it is.
build_ssml_raw_text(text, voice_short_name, pitch, rate, volume) ==
  SpeakOpen \o escape_str_attribute(voice_short_name)
    \o PitchAttr \o escape_str_attribute(pitch)
    \o RateAttr \o escape_str_attribute(rate)
    \o VolumeAttr \o escape_str_attribute(volume)
    \o ProsodyOpenEnd \o text \o SpeakClose

build_ssml(text, voice_short_name, pitch, rate, volume) ==
  SpeakOpen \o escape_str_attribute(voice_short_name)
    \o PitchAttr \o escape_str_attribute(pitch)
    \o RateAttr \o escape_str_attribute(rate)
    \o VolumeAttr \o escape_str_attribute(volume)
    \o ProsodyOpenEnd \o escape_str_pcdata(text) \o SpeakClose

\* The characters the arguments are made of: the five that XML reserves, a
\* line feed and a letter.
ArgChars == {"<", ">", "&", "\"", "'", "\n", "a"}

RECURSIVE StringsUpTo(_, _)
\* The strings of at most n characters of the set chars.
StringsUpTo(chars, n) ==
  IF n = 0 THEN {<<>>}
  ELSE StringsUpTo(chars, n - 1)
         \cup {Append(t, c) : t \in {u \in StringsUpTo(chars, n - 1) : Len(u) = n - 1},
                              c \in chars}

Texts == StringsUpTo(ArgChars, MaxText)

Voices == StringsUpTo(ArgChars, MaxVoice)
           \cup {<<"z", "h", "-", "C", "N", "-", "X", "i", "a", "o">>}

\* A keyword of the documentation, and a value that tries to end the
\* attribute and the element.
Pitches == {<<"h", "i", "g", "h">>, <<"\"", "/", ">", "<", "b", " ", "c", "=", "'">>}

Rates == {<<"x", "-", "f", "a", "s", "t">>}

\* A value that reads like a reference.
Volumes == {<<"&", "l", "t", ";">>}

\* The arguments of the calls made.
Arguments ==
  {[text |-> text, voice |-> voice, pitch |-> pitch, rate |-> rate,
    volume |-> volume] :
     text \in Texts, voice \in Voices, pitch \in Pitches, rate \in Rates,
     volume \in Volumes}

InitSsml ==
  /\ state = "Handshaking"
  /\ sent = <<>>
  /\ request_id = <<>>
  /\ buf = <<>>
  /\ result = Pending
  /\ last = NoMessage
  /\ nrecv = 0
  /\ expected = <<>>
  /\ ssml \in Ssmls
  /\ output_format \in OutputFormats
  /\ now = ClockStart
  /\ nticks = 0
  /\ calls = <<>>
  /\ markup_args \in Arguments
  /\ markup = <<>>
  /\ parsed_block = <<>>
  /\ parsed = NotParsed

\* A caller builds the markup of a request.
BuildSsml ==
  /\ markup = <<>>
  /\ markup' = build_ssml(markup_args.text, markup_args.voice, markup_args.pitch,
                          markup_args.rate, markup_args.volume)
  /\ UNCHANGED <<markup_args, sessionVars, tokenVars, headerVars>>

NextSsml == BuildSsml

SpecSsml == InitSsml /\ [][NextSsml]_vars

-----------------------------------------------------------------------------
(* parse_headers, called on header blocks of a few characters.             *)

BlockChars == {"\r", "\n", ":", " ", "a"}

\* The header blocks parse_headers is called on.
Blocks == StringsUpTo(BlockChars, MaxBlock)

InitHeaders ==
  /\ state = "Handshaking"
  /\ sent = <<>>
  /\ request_id = <<>>
  /\ buf = <<>>
  /\ result = Pending
  /\ last = NoMessage
  /\ nrecv = 0
  /\ expected = <<>>
  /\ ssml \in Ssmls
  /\ output_format \in OutputFormats
  /\ now = ClockStart
  /\ nticks = 0
  /\ calls = <<>>
  /\ markup_args = NoArgs
  /\ markup = <<>>
  /\ parsed_block \in Blocks
  /\ parsed = NotParsed

\* let headers = parse_headers(header_str);
ParseHeaders ==
  /\ ~parsed.done
  /\ parsed' = [done |-> TRUE, headers |-> parse_headers(parsed_block)]
  /\ UNCHANGED <<parsed_block, sessionVars, tokenVars, markupVars>>

NextHeaders == ParseHeaders

SpecHeaders == InitHeaders /\ [][NextHeaders]_vars

-----------------------------------------------------------------------------
(* The wire format of an inbound binary message (2-byte big-endian length  *)
(* of the header block, the header block, the payload) and what a frame    *)
(* carries by it. These say what a frame is; the properties are stated     *)
(* with them.                                                              *)

WireHeaderLen(s) == s[1] * 256 + s[2]

WireWellFramed(s) == Len(s) >= 2 /\ Len(s) >= WireHeaderLen(s) + 2

WireHeaderBlock(s) == from_utf8_lossy(SubSeq(s, 3, 2 + WireHeaderLen(s)))

WirePayload(s) == Drop(s, 2 + WireHeaderLen(s))

\* The header block holds the line `line`.
CarriesLine(block, line) ==
  LET lines == Split(block, CRLF)
  IN  \E i \in 1..Len(lines) : lines[i] = line

\* A well-framed binary message with Path:audio and X-RequestId:id.
IsAudioFor(s, id) ==
  /\ WireWellFramed(s)
  /\ CarriesLine(WireHeaderBlock(s), PathLine(Audio))
  /\ CarriesLine(WireHeaderBlock(s), RequestIdLine(id))

\* The header block of a text message: what precedes the first blank line.
HasBlankLine(s) == Find(s, BlankLine) # 0

-----------------------------------------------------------------------------
(* process_socket_data: the receive loop.                                  *)

\* A mutant of text_header_str: the whole message is taken for the header
\* block.
text_header_str_whole(s) == [some |-> TRUE, value |-> s]

\* s.splitn(2, "\r\n\r\n").next(): an Option, and always Some.
text_header_str(s) == [some |-> TRUE, value |-> Splitn2(s, BlankLine)[1]]

is_turn_end(headers) == any_header(headers, PathName, TurnEnd)

\* A mutant of is_audio: the binary arm takes Path:turn.end for audio too.
is_audio_or_turn_end(headers) ==
  any_header(headers, PathName, Audio) \/ any_header(headers, PathName, TurnEnd)

is_audio(headers) == any_header(headers, PathName, Audio)

\* A mutant of has_request_id: any X-RequestId header passes.
has_request_id_any_value(headers, id) ==
  \E i \in 1..Len(headers) : headers[i][1] = RequestIdName

has_request_id(headers, id) == any_header(headers, RequestIdName, id)

\* What the Message::Text arm does with s.
text_step(s, id) ==
  LET header_str == text_header_str(s)
  IN  IF header_str.some
      THEN LET headers == parse_headers(header_str.value)
           IN  IF is_turn_end(headers)
               THEN IF has_request_id(headers, id) THEN "return_ok"
                    ELSE "no_request_id"
               ELSE "continue"
      ELSE "bad_text"

\* s[0] as usize * 256 + s[1] as usize
header_len(s) == s[1] * 256 + s[2]

\* A mutant of long_enough: the length check is one byte short.
long_enough_off_by_one(s) == Len(s) >= header_len(s) + 1

\* s.len() >= header_len + 2
long_enough(s) == Len(s) >= header_len(s) + 2

\* parse_headers(String::from_utf8_lossy(&s[2..header_len]))
binary_headers(s) == parse_headers(from_utf8_lossy(SubSeq(s, 3, header_len(s))))

\* &s[(header_len + 2)..]
binary_body(s) == Drop(s, header_len(s) + 2)

\* A mutant of binary_step: an audio frame of another request is passed over.
binary_step_drops_foreign(s, id) ==
  IF Len(s) < 2 THEN "panic_index"
  ELSE IF long_enough(s)
       THEN IF header_len(s) < 2 THEN "panic_slice"
            ELSE IF is_audio(binary_headers(s)) /\ has_request_id(binary_headers(s), id)
                 THEN "extend"
                 ELSE "continue"
       ELSE "bad_binary"

\* What the Message::Binary arm does with s. s[0] and s[1] panic on a message
\* shorter than two bytes, and &s[2..header_len] panics when header_len < 2.
binary_step(s, id) ==
  IF Len(s) < 2 THEN "panic_index"
  ELSE IF long_enough(s)
       THEN IF header_len(s) < 2 THEN "panic_slice"
            ELSE IF is_audio(binary_headers(s))
                 THEN IF has_request_id(binary_headers(s), id) THEN "extend"
                      ELSE "no_request_id"
                 ELSE "continue"
       ELSE "bad_binary"

\* A mutant of Reading: the loop goes on reading after it returned an error.
Reading_after_failure == state \in {"Streaming", "Failed"} /\ nrecv < MaxRecv

\* A mutant of Reading: the loop runs before the sends are done.
Reading_before_handshake ==
  state \in {"Handshaking", "Streaming"} /\ nrecv < MaxRecv

\* The loop is entered after both sends, and left by return.
Reading == state = "Streaming" /\ nrecv < MaxRecv

\* text_step over the text messages delivered and the request ids.
TextCases ==
  {[msg |-> s, id |-> id, step |-> text_step(s, id)] :
     s \in TextMessages, id \in RequestIds}

\* binary_step over the binary messages delivered and the request ids, with
\* the body the "extend" step appends.
BinaryCases ==
  {[msg |-> s, id |-> id, step |-> binary_step(s, id),
    body |-> IF binary_step(s, id) = "extend" THEN binary_body(s) ELSE <<>>,
    wire |-> IF IsAudioFor(s, id) THEN WirePayload(s) ELSE <<>>] :
     s \in BinaryMessages, id \in RequestIds}

\* socket.read() returned Ok(Message::Text(s)).
RecvText ==
  /\ Reading
  /\ \E c \in TextCases :
       /\ c.id = request_id
       /\ last' = Text(c.msg)
       /\ CASE c.step = "return_ok" ->
                 state' = "Completed" /\ result' = Ok(buf)
            [] c.step = "no_request_id" ->
                 /\ state' = "Failed"
                 /\ result' = Err("Path:turn.end no X-RequestId header")
            [] c.step = "bad_text" ->
                 /\ state' = "Failed"
                 /\ result' = Err("bad text response. message not complete")
            [] OTHER -> UNCHANGED <<state, result>>
  /\ nrecv' = nrecv + 1
  /\ UNCHANGED <<sent, request_id, buf, expected, ssml, output_format>>
  /\ UNCHANGED <<tokenVars, markupVars, headerVars>>

\* A mutant of extend: the body takes the place of the buffer.
extend_overwrites(buffer, body) == body

\* buf.extend(body)
extend(buffer, body) == buffer \o body

\* socket.read() returned Ok(Message::Binary(s)).
RecvBinary ==
  /\ Reading
  /\ \E c \in BinaryCases :
       /\ c.id = request_id
       /\ last' = Binary(c.msg)
       /\ expected' = expected \o c.wire
       /\ CASE c.step = "extend" ->
                 buf' = extend(buf, c.body) /\ UNCHANGED <<state, result>>
            [] c.step = "no_request_id" ->
                 /\ state' = "Failed"
                 /\ result' = Err("Path:audio no X-RequestId header")
                 /\ UNCHANGED buf
            [] c.step = "bad_binary" ->
                 /\ state' = "Failed"
                 /\ result' = Err("bad binary response")
                 /\ UNCHANGED buf
            [] c.step \in {"panic_index", "panic_slice"} ->
                 /\ state' = "Panicked"
                 /\ UNCHANGED <<result, buf>>
            [] OTHER -> UNCHANGED <<state, result, buf>>
  /\ nrecv' = nrecv + 1
  /\ UNCHANGED <<sent, request_id, ssml, output_format>>
  /\ UNCHANGED <<tokenVars, markupVars, headerVars>>

\* socket.read() returned Ok of any other kind of message.
RecvOther ==
  /\ Reading
  /\ \E k \in OtherKinds : last' = Other(k)
  /\ nrecv' = nrecv + 1
  /\ UNCHANGED <<state, sent, request_id, buf, result, expected, ssml, output_format>>
  /\ UNCHANGED <<tokenVars, markupVars, headerVars>>

\* A mutant of RecvError: the end of the channel ends the audio.
RecvError_returns_buf ==
  /\ Reading
  /\ last' = ReadError
  /\ nrecv' = nrecv + 1
  /\ state' = "Completed"
  /\ result' = Ok(buf)
  /\ UNCHANGED <<sent, request_id, buf, expected, ssml, output_format>>
  /\ UNCHANGED <<tokenVars, markupVars, headerVars>>

\* socket.read() returned Err(e).
RecvError ==
  /\ Reading
  /\ last' = ReadError
  /\ nrecv' = nrecv + 1
  /\ state' = "Failed"
  /\ result' = Err("socket read error")
  /\ UNCHANGED <<sent, request_id, buf, expected, ssml, output_format>>
  /\ UNCHANGED <<tokenVars, markupVars, headerVars>>

Next == SendConfig \/ SendSsml \/ RecvText \/ RecvBinary \/ RecvOther \/ RecvError

Spec == Init /\ [][Next]_vars

-----------------------------------------------------------------------------
(* generate_sec_ms_gec_sync. A u64 is the sequence of its decimal digits,  *)
(* most significant first, which is also what format!("{}", n) prints.     *)

TrustedClientToken ==
  <<"6", "A", "5", "A", "A", "1", "D", "4", "E", "A", "F", "F", "4", "E",
    "9", "F", "B", "3", "7", "E", "2", "3", "D", "6", "8", "4", "9", "1", "D", "6", "F", "4">>

\* 11644473600, the seconds from the Windows epoch to the Unix epoch.
EpochShift == <<1, 1, 6, 4, 4, 4, 7, 3, 6, 0, 0>>

\* u64::MAX = 18446744073709551615
U64Max == <<1, 8, 4, 4, 6, 7, 4, 4, 0, 7, 3, 7, 0, 9, 5, 5, 1, 6, 1, 5>>

WindowSeconds == 300

TicksPerSecond == 10000000

RECURSIVE Digits(_)
Digits(n) == IF n < 10 THEN <<n>> ELSE Digits(n \div 10) \o <<n % 10>>

RECURSIVE Normalize(_)
\* Without leading zeros.
Normalize(d) ==
  IF Len(d) > 1 /\ d[1] = 0 THEN Normalize(Tail(d)) ELSE d

Reverse(d) == [i \in 1..Len(d) |-> d[Len(d) - i + 1]]

\* a <= b, for digit sequences without leading zeros.
LessEq(a, b) ==
  \/ Len(a) < Len(b)
  \/ /\ Len(a) = Len(b)
     /\ \/ a = b
        \/ \E i \in 1..Len(a) :
             a[i] < b[i] /\ \A j \in 1..(i - 1) : a[j] = b[j]

RECURSIVE PlusFromLow(_, _, _)
\* x + y + carry, the digits least significant first.
PlusFromLow(x, y, carry) ==
  IF x = <<>> /\ y = <<>> THEN (IF carry = 0 THEN <<>> ELSE <<carry>>)
  ELSE LET dx == IF x = <<>> THEN 0 ELSE Head(x)
           dy == IF y = <<>> THEN 0 ELSE Head(y)
           tx == IF x = <<>> THEN <<>> ELSE Tail(x)
           ty == IF y = <<>> THEN <<>> ELSE Tail(y)
       IN  <<(dx + dy + carry) % 10>> \o PlusFromLow(tx, ty, (dx + dy + carry) \div 10)

\* a + b
Plus(a, b) == Reverse(PlusFromLow(Reverse(a), Reverse(b), 0))

RECURSIVE MinusFromLow(_, _, _)
\* x - y - borrow for x >= y, the digits least significant first.
MinusFromLow(x, y, borrow) ==
  IF x = <<>> THEN <<>>
  ELSE LET dy == IF y = <<>> THEN 0 ELSE Head(y)
           ty == IF y = <<>> THEN <<>> ELSE Tail(y)
           d  == Head(x) - dy - borrow
       IN  <<(d + 10) % 10>> \o MinusFromLow(Tail(x), ty, IF d < 0 THEN 1 ELSE 0)

\* a - b, for a >= b
Minus(a, b) == Normalize(Reverse(MinusFromLow(Reverse(a), Reverse(b), 0)))

RECURSIVE ModuloFrom(_, _, _)
ModuloFrom(a, m, r) ==
  IF a = <<>> THEN r ELSE ModuloFrom(Tail(a), m, (r * 10 + Head(a)) % m)

\* a % m, for a small m
Modulo(a, m) == ModuloFrom(a, m, 0)

RECURSIVE TimesFromLow(_, _, _)
\* x * m + carry for a small m, the digits least significant first.
TimesFromLow(x, m, carry) ==
  IF x = <<>> THEN (IF carry = 0 THEN <<>> ELSE Reverse(Digits(carry)))
  ELSE <<(Head(x) * m + carry) % 10>>
         \o TimesFromLow(Tail(x), m, (Head(x) * m + carry) \div 10)

\* a * m, for a small m
Times(a, m) == Normalize(Reverse(TimesFromLow(Reverse(a), m, 0)))

\* format!("{}", n)
to_string(d) == [i \in 1..Len(d) |-> Ascii[48 + d[i] + 1]]

\* let ticks = now + 11644473600;
shift_epoch(secs) == Plus(Digits(secs), EpochShift)

\* A mutant of round_down: the seconds are not rounded.
round_none(ticks) == ticks

\* let rounded = ticks - (ticks % 300);
round_down(ticks) == Minus(ticks, Digits(Modulo(ticks, WindowSeconds)))

\* let windows_ticks = rounded * 10000000;
to_windows_ticks(rounded) == Times(rounded, TicksPerSecond)

\* format!("{}{}", windows_ticks, trusted_client_token)
hash_input(secs, trusted_client_token) ==
  to_string(to_windows_ticks(round_down(shift_epoch(secs)))) \o trusted_client_token

\* The SHA-256 digest of data in upper-case hexadecimal: a value that the
\* data alone determines.
sha256_hex_upper(data) == [sha256 |-> data]

generate_sec_ms_gec_sync(secs, trusted_client_token) ==
  sha256_hex_upper(hash_input(secs, trusted_client_token))

InitToken ==
  /\ state = "Handshaking"
  /\ sent = <<>>
  /\ request_id = <<>>
  /\ buf = <<>>
  /\ result = Pending
  /\ last = NoMessage
  /\ nrecv = 0
  /\ expected = <<>>
  /\ ssml \in Ssmls
  /\ output_format \in OutputFormats
  /\ now \in ClockStart..(ClockStart + 2)
  /\ nticks = 0
  /\ calls = <<>>
  /\ markup_args = NoArgs
  /\ markup = <<>>
  /\ parsed_block = <<>>
  /\ parsed = NotParsed

\* The seconds the clock moves between two observations.
TickSteps == {1, 299, 300}

\* Time passes.
Tick ==
  /\ nticks < MaxTicks
  /\ \E d \in TickSteps : now' = now + d
  /\ nticks' = nticks + 1
  /\ UNCHANGED calls
  /\ UNCHANGED <<sessionVars, markupVars, headerVars>>

\* request_audio builds the url: generate_sec_ms_gec_sync("6A5A...D6F4").
GenerateToken ==
  /\ Len(calls) < MaxCalls
  /\ calls' = Append(calls,
       [now |-> now,
        data |-> hash_input(now, TrustedClientToken),
        token |-> generate_sec_ms_gec_sync(now, TrustedClientToken)])
  /\ UNCHANGED <<now, nticks>>
  /\ UNCHANGED <<sessionVars, markupVars, headerVars>>

NextToken == Tick \/ GenerateToken

SpecToken == InitToken /\ [][NextToken]_vars

-----------------------------------------------------------------------------
(* Properties of the session.                                              *)

\* The header block of a text message: the text before the first blank
\* line, and all of the message when it has no blank line.
TextHeaderBlock(s) ==
  IF HasBlankLine(s) THEN SubSeq(s, 1, Find(s, BlankLine) - 1) ELSE s

\* The bytes of a binary message that the session reads header lines from.
ExaminedBlock(s) == from_utf8_lossy(SubSeq(s, 3, WireHeaderLen(s)))

\* The block has an X-RequestId line for a request id other than id.
CarriesForeignId(block, id) ==
  \E r \in RequestIds : r # id /\ CarriesLine(block, RequestIdLine(r))

EndsWith(s, t) ==
  Len(s) >= Len(t) /\ SubSeq(s, Len(s) - Len(t) + 1, Len(s)) = t

IdentityMismatch ==
  /\ state = "Failed"
  /\ result.tag = "Err"
  /\ result.bytes = <<>>
  /\ result.error \in {"Path:turn.end no X-RequestId header",
                       "Path:audio no X-RequestId header"}

\* C1: when process_socket_data returns Ok, the bytes returned are the
\* payloads, in arrival order, of exactly the binary frames received that
\* carry Path:audio and the X-RequestId of the session.
C1_ReturnsAudioOfSession ==
  result.tag = "Ok" => result.bytes = expected

\* C2: the session completes only on a text frame whose header block has
\* Path:turn.end and the X-RequestId of the session; a text frame with
\* Path:turn.end and no X-RequestId equal to the session's fails the session
\* with an identity mismatch and returns no audio.
C2_CompletesOnlyOnTurnEnd ==
  /\ (state = "Completed" \/ result.tag = "Ok") =>
       /\ state = "Completed" /\ result.tag = "Ok"
       /\ last.kind = "Text"
       /\ CarriesLine(TextHeaderBlock(last.data), PathLine(TurnEnd))
       /\ CarriesLine(TextHeaderBlock(last.data), RequestIdLine(request_id))
  /\ ( /\ last.kind = "Text"
       /\ CarriesLine(TextHeaderBlock(last.data), PathLine(TurnEnd))
       /\ ~CarriesLine(TextHeaderBlock(last.data), RequestIdLine(request_id)) ) =>
       /\ IdentityMismatch
       /\ result.error = "Path:turn.end no X-RequestId header"

\* C2 witness: a turn.end frame for another request arrived after audio was
\* accumulated, and the session failed.
C2_Witness ==
  /\ last.kind = "Text"
  /\ CarriesLine(TextHeaderBlock(last.data), PathLine(TurnEnd))
  /\ CarriesForeignId(TextHeaderBlock(last.data), request_id)
  /\ buf # <<>>
  /\ state = "Failed"

\* C3: a binary frame with Path:audio and no X-RequestId equal to the
\* session's fails the session with an identity mismatch, and the audio
\* accumulated is not returned.
C3_ForeignAudioFails ==
  ( /\ last.kind = "Binary"
    /\ WireWellFramed(last.data)
    /\ CarriesLine(WireHeaderBlock(last.data), PathLine(Audio))
    /\ ~CarriesLine(WireHeaderBlock(last.data), RequestIdLine(request_id)) ) =>
    /\ IdentityMismatch
    /\ result.error = "Path:audio no X-RequestId header"

\* C4: for a binary message at least header_len + 2 bytes long the headers
\* parsed are those of bytes [2, 2 + header_len), and a frame with Path:audio
\* and the X-RequestId of the session appends exactly its payload, the bytes
\* from 2 + header_len on, with or without a CRLF ending the header block.
C4_FramedAudioAppendsPayload ==
  ( /\ last.kind = "Binary"
    /\ IsAudioFor(last.data, request_id) ) =>
    /\ state = "Streaming"
    /\ binary_headers(last.data) = parse_headers(WireHeaderBlock(last.data))
    /\ EndsWith(buf, WirePayload(last.data))

\* C5: a binary message shorter than its declared header length + 2 fails
\* the session with the malformed-binary error, whatever its header bytes
\* say.
C5_ShortBinaryIsMalformed ==
  ( /\ last.kind = "Binary"
    /\ Len(last.data) >= 2
    /\ Len(last.data) < WireHeaderLen(last.data) + 2 ) =>
    /\ state = "Failed"
    /\ result = Err("bad binary response")

\* C5 witness: after audio was accumulated, a message that declares more
\* header bytes than it has and whose bytes hold the lines Path:audio and the
\* X-RequestId of the session.
C5_Witness ==
  /\ last.kind = "Binary"
  /\ Len(last.data) >= 2
  /\ Len(last.data) < WireHeaderLen(last.data) + 2
  /\ CarriesLine(from_utf8_lossy(Drop(last.data, 2)), PathLine(Audio))
  /\ CarriesLine(from_utf8_lossy(Drop(last.data, 2)), RequestIdLine(request_id))
  /\ state = "Failed"
  /\ result = Err("bad binary response")
  /\ buf # <<>>

\* C6: a text message with no blank line fails the session with the
\* malformed-text error, and never completes it.
C6_NoBlankLineIsMalformed ==
  (last.kind = "Text" /\ ~HasBlankLine(last.data)) =>
    /\ state = "Failed"
    /\ result = Err("bad text response. message not complete")

C8_Inv ==
  /\ Len(sent) <= 2
  /\ Len(sent) >= 1 => sent[1] = config_message(output_format)
  /\ Len(sent) = 2 => sent[2] = ssml_message(request_id, ssml)
  /\ state \in {"Streaming", "Completed", "Panicked"} => Len(sent) = 2
  /\ nrecv > 0 => Len(sent) = 2
  /\ Len(sent) < 2 => state \in {"Handshaking", "Failed"}
  /\ (state = "Failed" /\ Len(sent) < 2) => result = Err("send error")

\* C8: speech.config is sent first and the ssml message, with the request id
\* of the session, second; nothing is received before both were sent; a
\* failed send ends the session in Failed with nothing more sent and nothing
\* received; no third message is sent and none once the handshake is over.
C8_OutboundOrder ==
  /\ []C8_Inv
  /\ [][state # "Handshaking" => sent' = sent]_vars
  /\ [][Len(sent') <= Len(sent) + 1 /\ SubSeq(sent', 1, Len(sent)) = sent]_vars

\* C8 witness: the ssml send failed after speech.config was sent.
C8_Witness ==
  /\ state = "Failed"
  /\ result = Err("send error")
  /\ Len(sent) = 1
  /\ nrecv = 0

\* C9: a receive error fails the session with the read error, and the audio
\* accumulated is not returned.
C9_ReceiveErrorFails ==
  last = ReadError =>
    /\ state = "Failed"
    /\ result = Err("socket read error")

\* C9 witness: the channel ended after audio frames and before any turn.end.
C9_Witness ==
  /\ last = ReadError
  /\ buf = <<65, 66, 67, 68>>
  /\ state = "Failed"

-----------------------------------------------------------------------------
(* Properties of the token generator.                                      *)

\* The 300-second bucket of the clock value t, counted from the Windows
\* epoch: 11644473600 = 300 * 38814912.
Bucket(t) == (t \div 300) + 38814912

\* decimal(bucket * 300 * 10000000)
BucketTicks(t) == Digits(Bucket(t) * 3) \o <<0, 0, 0, 0, 0, 0, 0, 0, 0>>

\* C10: the value hashed is decimal((t + 11644473600 - ((t + 11644473600)
\* mod 300)) * 10000000) followed by the secret, the rounded value being the
\* greatest multiple of 300 not above the shifted time; two clock values of
\* one bucket give the same hash input and token, two of different buckets
\* give different hash inputs.
C10_TokenBuckets ==
  /\ \A i \in 1..Len(calls) :
       /\ calls[i].data = to_string(BucketTicks(calls[i].now)) \o TrustedClientToken
       /\ LessEq(to_windows_ticks(round_down(shift_epoch(calls[i].now))), U64Max)
  /\ \A i, j \in 1..Len(calls) :
       /\ Bucket(calls[i].now) = Bucket(calls[j].now) =>
            calls[i].data = calls[j].data /\ calls[i].token = calls[j].token
       /\ Bucket(calls[i].now) # Bucket(calls[j].now) =>
            calls[i].data # calls[j].data

\* C10 witness: two calls 299 seconds apart in one bucket, and a third one
\* second later in the next bucket.
C10_Witness ==
  /\ Len(calls) = 3
  /\ calls[2].now = calls[1].now + 299
  /\ calls[3].now = calls[2].now + 1
  /\ calls[1].token = calls[2].token
  /\ calls[2].data # calls[3].data

-----------------------------------------------------------------------------
(* Properties of build_ssml: a reader of XML tags, attributes and          *)
(* character data, after XML 1.0.                                          *)

\* What the reader puts where the text is no well-formed XML.
Malformed == "malformed"

\* The first position from i on where s has a character of cs, 0 if none.
IndexFrom(s, cs, i) ==
  LET hits == {j \in i..Len(s) : s[j] \in cs}
  IN  IF hits = {} THEN 0 ELSE CHOOSE j \in hits : \A k \in hits : j <= k

\* The character a reference stands for.
ReferenceChar(ref) ==
  CASE ref = Lt -> "<"
    [] ref = Gt -> ">"
    [] ref = Quot -> "\""
    [] ref = Apos -> "'"
    [] ref = Amp -> "&"
    [] ref = LineFeedRef -> "\n"
    [] ref = CarriageReturnRef -> "\r"
    [] OTHER -> Malformed

RECURSIVE UnescapeFrom(_, _)
UnescapeFrom(raw, i) ==
  IF i > Len(raw) THEN <<>>
  ELSE IF raw[i] = "&"
       THEN LET j == IndexFrom(raw, {";"}, i)
            IN  IF j = 0 THEN <<Malformed>>
                ELSE <<ReferenceChar(SubSeq(raw, i, j))>> \o UnescapeFrom(raw, j + 1)
       ELSE <<raw[i]>> \o UnescapeFrom(raw, i + 1)

\* raw with every reference replaced by its character.
Unescape(raw) == UnescapeFrom(raw, 1)

\* The value of an attribute: literal white space becomes a space, then the
\* references are replaced.
AttributeValue(raw) ==
  Unescape([i \in 1..Len(raw) |-> IF raw[i] \in {"\n", "\r", "\t"} THEN " " ELSE raw[i]])

WellFormedReferences(raw) ==
  LET chars == Unescape(raw)
  IN  \A i \in 1..Len(chars) : chars[i] # Malformed

RECURSIVE TagEndFrom(_, _)
\* The position of the > that ends the tag read from i on, outside of any
\* quoted attribute value; 0 if there is none before the next <.
TagEndFrom(doc, i) ==
  LET p == IndexFrom(doc, {">", "<", "\"", "'"}, i)
  IN  IF p = 0 THEN 0
      ELSE IF doc[p] = "<" THEN 0
      ELSE IF doc[p] = ">" THEN p
      ELSE LET close == IndexFrom(doc, {doc[p], "<"}, p + 1)
           IN  IF close = 0 THEN 0
               ELSE IF doc[close] = "<" THEN 0
               ELSE TagEndFrom(doc, close + 1)

NameChars(name) ==
  /\ name # <<>>
  /\ \A i \in 1..Len(name) : name[i] \notin {" ", "\"", "'", "<", ">", "&", "=", "/", "\n"}

RECURSIVE ReadAttributes(_, _)
\* The attributes of a start tag from position i on: pairs of a name and the
\* text between its quotes.
ReadAttributes(inner, i) ==
  IF i > Len(inner) THEN <<>>
  ELSE IF inner[i] # " " THEN <<Malformed>>
  ELSE LET eq == IndexFrom(inner, {"="}, i + 1)
       IN  IF eq = 0 \/ eq + 1 > Len(inner) THEN <<Malformed>>
           ELSE IF inner[eq + 1] \notin {"\"", "'"} THEN <<Malformed>>
           ELSE LET close == IndexFrom(inner, {inner[eq + 1]}, eq + 2)
                IN  IF close = 0 \/ ~NameChars(SubSeq(inner, i + 1, eq - 1))
                    THEN <<Malformed>>
                    ELSE <<<<SubSeq(inner, i + 1, eq - 1), SubSeq(inner, eq + 2, close - 1)>>>>
                           \o ReadAttributes(inner, close + 1)

\* The tag whose text between < and > is inner.
ReadTag(inner) ==
  IF inner # <<>> /\ inner[1] = "/"
  THEN [type |-> "end", name |-> Drop(inner, 1), attributes |-> <<>>, raw |-> <<>>]
  ELSE LET sp == IndexFrom(inner, {" "}, 1)
           name == IF sp = 0 THEN inner ELSE SubSeq(inner, 1, sp - 1)
       IN  [type |-> "start", name |-> name,
            attributes |-> IF sp = 0 THEN <<>> ELSE ReadAttributes(inner, sp),
            raw |-> <<>>]

RECURSIVE ReadTokens(_, _)
\* The tags and the runs of character data of doc from position i on.
ReadTokens(doc, i) ==
  IF i > Len(doc) THEN <<>>
  ELSE IF doc[i] = "<"
       THEN LET close == TagEndFrom(doc, i + 1)
            IN  IF close = 0
                THEN <<[type |-> Malformed, name |-> <<>>, attributes |-> <<>>, raw |-> <<>>]>>
                ELSE <<ReadTag(SubSeq(doc, i + 1, close - 1))>> \o ReadTokens(doc, close + 1)
       ELSE LET next == IndexFrom(doc, {"<"}, i)
                end == IF next = 0 THEN Len(doc) ELSE next - 1
            IN  <<[type |-> "text", name |-> <<>>, attributes |-> <<>>,
                   raw |-> SubSeq(doc, i, end)]>> \o ReadTokens(doc, end + 1)

StartTag(token, name) ==
  /\ token.type = "start"
  /\ token.name = name
  /\ \A i \in 1..Len(token.attributes) :
       /\ token.attributes[i] # Malformed
       /\ WellFormedReferences(token.attributes[i][2])

EndTag(token, name) == token.type = "end" /\ token.name = name

AttributeNames(token) == [i \in 1..Len(token.attributes) |-> token.attributes[i][1]]

Speak == <<"s", "p", "e", "a", "k">>

Voice == <<"v", "o", "i", "c", "e">>

Prosody == <<"p", "r", "o", "s", "o", "d", "y">>

-----------------------------------------------------------------------------
(* The session over a transport that in the end delivers a turn.end text   *)
(* frame or a receive error, and whose sends return.                       *)

\* The text messages with a Path:turn.end line in their header block.
TurnEndTexts ==
  {s \in TextMessages : CarriesLine(TextHeaderBlock(s), PathLine(TurnEnd))}

\* socket.read() returned a turn.end text message.
RecvTurnEnd == RecvText /\ last'.data \in TurnEndTexts

\* The transport ends the stream.
DeliverEnd == RecvTurnEnd \/ RecvError

\* The transport delivers a message, with room left for the one that ends
\* the stream.
DeliverMore ==
  /\ nrecv < MaxRecv - 1
  /\ (RecvText \/ RecvBinary \/ RecvOther)

NextLive == SendConfig \/ SendSsml \/ DeliverMore \/ DeliverEnd

SpecLive ==
  /\ Init
  /\ [][NextLive]_vars
  /\ WF_vars(SendConfig)
  /\ WF_vars(SendSsml)
  /\ WF_vars(DeliverEnd)

\* The frames that are audio of the session with request id `id` or are
\* ignored by it: other kinds of message, text frames without a
\* Path:turn.end line, framed binary messages without a Path:audio line, and
\* the session's own audio frames. Pairs <<frame, id>>.
KeepsStreaming ==
  {<<Other(k), id>> : k \in OtherKinds, id \in RequestIds}
    \cup {<<Text(s), id>> : s \in TextMessages \ TurnEndTexts, id \in RequestIds}
    \cup {c \in {<<Binary(s), id>> : s \in BinaryMessages, id \in RequestIds} :
            /\ WireWellFramed(c[1].data)
            /\ \/ IsAudioFor(c[1].data, c[2])
               \/ ~CarriesLine(WireHeaderBlock(c[1].data), PathLine(Audio))}

\* C12: over a transport that in the end delivers a turn.end text frame or a
\* receive error, every session reaches Completed or Failed; and receiving an
\* audio frame or a frame that is passed over never ends the session,
\* however many were received.
C12_EndsOnlyOnTerminalFrame ==
  /\ <>(state \in {"Completed", "Failed"})
  /\ [][(nrecv' = nrecv + 1 /\ <<last', request_id>> \in KeepsStreaming)
          => state' = "Streaming"]_vars

-----------------------------------------------------------------------------
(* Properties of the outcome of the session.                               *)

\* process_socket_data has returned.
Returned == state \in {"Completed", "Failed"}

\* C13: Completed and Failed are terminal and exclude each other: once the
\* session has returned, nothing more is received or sent and neither the
\* state nor the outcome changes; the outcome is the audio buffer exactly
\* when the session completed and an error, with no bytes, exactly when it
\* failed, and there is no outcome before the session returned.
C13_TerminalOneOutcome ==
  /\ [](state = "Completed" => result = Ok(buf))
  /\ [](state = "Failed" =>
          result.tag = "Err" /\ result.bytes = <<>> /\ result.error # "")
  /\ [](~Returned => result = Pending)
  /\ [][Returned => UNCHANGED <<state, result, sent, nrecv, last, buf>>]_vars

\* A session that failed with audio in its buffer and reads left to do.
C13_Witness ==
  /\ state = "Failed"
  /\ buf # <<>>
  /\ nrecv < MaxRecv
  /\ result.tag = "Err"

\* The frames the session ignores: messages of another kind, text messages
\* with a blank line whose header block has no Path:turn.end line, and
\* framed binary messages whose header block has no Path:audio line.
IgnoredFrames ==
  {Other(k) : k \in OtherKinds}
    \cup {Text(s) : s \in {t \in TextMessages :
                               /\ HasBlankLine(t)
                               /\ t \notin TurnEndTexts}}
    \cup {Binary(s) : s \in {b \in BinaryMessages :
                                 /\ WireWellFramed(b)
                                 /\ ~CarriesLine(WireHeaderBlock(b),
                                                 PathLine(Audio))}}

\* C14: receiving a message of another kind, a well-formed text frame
\* without a Path:turn.end header or a well-formed binary frame without a
\* Path:audio header leaves the audio buffer, the request id and the state
\* as they were: the session stays in Streaming with the buffer it had.
C14_IgnoredFramesChangeNothing ==
  [][(nrecv' = nrecv + 1 /\ last' \in IgnoredFrames)
       => /\ state' = "Streaming"
          /\ UNCHANGED <<buf, request_id>>]_vars

IsPrefix(s, t) == Len(s) <= Len(t) /\ SubSeq(t, 1, Len(s)) = s

\* C15: the audio buffer is append-only: it is empty until the loop runs,
\* every step leaves the buffer it found as a prefix of the buffer it leaves,
\* and bytes reach the caller only in the outcome of a completed session,
\* which is the whole buffer.
C15_BufferAppendOnly ==
  /\ [](state = "Handshaking" => buf = <<>>)
  /\ [][IsPrefix(buf, buf')]_vars
  /\ [](result.tag = "Ok" => state = "Completed" /\ result.bytes = buf)
  /\ [](state # "Completed" => result.bytes = <<>>)

\* Two payloads were appended and the session completed.
C15_Witness ==
  /\ state = "Completed"
  /\ Len(buf) = 4
  /\ result = Ok(buf)

\* Frames whose Path belongs to the other kind of message: framed binary
\* messages with a Path:turn.end line and no Path:audio line, and text
\* messages with a blank line whose header block has a Path:audio line and
\* no Path:turn.end line.
CrossedFrames ==
  {Binary(s) : s \in {b \in BinaryMessages :
                          /\ WireWellFramed(b)
                          /\ CarriesLine(WireHeaderBlock(b), PathLine(TurnEnd))
                          /\ ~CarriesLine(WireHeaderBlock(b), PathLine(Audio))}}
    \cup {Text(s) : s \in {t \in TextMessages :
                               /\ HasBlankLine(t)
                               /\ CarriesLine(TextHeaderBlock(t), PathLine(Audio))
                               /\ t \notin TurnEndTexts}}

\* C16: the kind of the frame and its Path are checked together: a binary
\* frame with Path:turn.end, whatever its request id, does not complete the
\* session, and a text frame with Path:audio, whatever its request id,
\* appends nothing and does not fail the session; after either the session
\* is in Streaming with the buffer it had and no outcome.
C16_PathOfTheOtherKindIsIgnored ==
  [][(nrecv' = nrecv + 1 /\ last' \in CrossedFrames)
       => /\ state' = "Streaming"
          /\ result' = Pending
          /\ UNCHANGED buf]_vars

\* A binary frame with Path:turn.end and the request id of the session was
\* received.
C16_Witness ==
  /\ last \in CrossedFrames
  /\ last.kind = "Binary"
  /\ CarriesLine(WireHeaderBlock(last.data), RequestIdLine(request_id))
  /\ state = "Streaming"

-----------------------------------------------------------------------------
(* Properties of parse_headers.                                            *)

\* Where a CRLF starts in s.
Breaks(s) == {i \in 1..(Len(s) - 1) : s[i] = "\r" /\ s[i + 1] = "\n"}

\* Where a line of s starts: at the start of s and after every CRLF.
LineStarts(s) == {1} \cup {i + 2 : i \in Breaks(s)}

\* Where the line of s that starts at b ends: before the next CRLF, or at
\* the end of s.
LineEnd(s, b) ==
  LET next == {i \in Breaks(s) : i >= b}
  IN  IF next = {} THEN Len(s)
      ELSE (CHOOSE i \in next : \A j \in next : i <= j) - 1

\* The k-th smallest member of a set of numbers.
Nth(set, k) == CHOOSE b \in set : Cardinality({c \in set : c < b}) = k - 1

\* The pair a line of a header block stands for: the text before its first
\* colon and all the text after it, or the line and no value.
PairOfLine(line) ==
  LET colons == {i \in 1..Len(line) : line[i] = ":"}
  IN  IF colons = {} THEN <<line, <<>>>>
      ELSE LET c == CHOOSE i \in colons : \A j \in colons : i <= j
           IN  <<SubSeq(line, 1, c - 1), SubSeq(line, c + 1, Len(line))>>

\* C17: parse_headers splits the block on CRLF, skips the empty lines, and
\* yields for each line left, in the order of the block and with repeated
\* names kept, the pair of the text before its first colon and everything
\* after that colon, untrimmed, with an empty value when there is no colon.
C17_ParseHeaders ==
  parsed.done =>
    LET s == parsed_block
        starts == {b \in LineStarts(s) : LineEnd(s, b) >= b}
    IN  /\ Len(parsed.headers) = Cardinality(starts)
        /\ \A k \in 1..Len(parsed.headers) :
             LET b == Nth(starts, k)
             IN  parsed.headers[k] = PairOfLine(SubSeq(s, b, LineEnd(s, b)))

\* A block with one line whose value starts with a space and holds a colon.
C17_Witness ==
  /\ parsed.done
  /\ parsed_block = <<"a", ":", " ", ":">>
  /\ parsed.headers = <<<<<<"a">>, <<" ", ":">>>>>>

-----------------------------------------------------------------------------
(* Properties of the receive loop, continued.                              *)

\* C18: receiving a binary message, of any length and with any declared
\* header length, never aborts the session: after the step the session is
\* in Streaming, with the buffer it had or with a payload appended, or it
\* has returned an error.
C18_BinaryNeverAborts ==
  [][(nrecv' = nrecv + 1 /\ last'.kind = "Binary")
       => \/ state' = "Streaming" /\ result' = Pending /\ IsPrefix(buf, buf')
          \/ state' = "Failed" /\ result'.tag = "Err"]_vars

\* The framed binary messages with a Path:audio line in their header block.
AudioBinaries ==
  {b \in BinaryMessages :
     WireWellFramed(b) /\ CarriesLine(WireHeaderBlock(b), PathLine(Audio))}

\* The pairs <<frame, id>> of a turn.end text frame or an audio binary frame
\* and a request id that one of the X-RequestId lines of the frame equals.
Matching ==
  {c \in {<<Text(s), id>> : s \in TurnEndTexts, id \in RequestIds} :
     CarriesLine(TextHeaderBlock(c[1].data), RequestIdLine(c[2]))}
    \cup {c \in {<<Binary(s), id>> : s \in AudioBinaries, id \in RequestIds} :
            CarriesLine(WireHeaderBlock(c[1].data), RequestIdLine(c[2]))}

\* C19: header lookups are any-match over repeated names. A text frame is a
\* turn.end frame when any of its Path lines says turn.end, a binary frame
\* an audio frame when any of its Path lines says audio, and such a frame
\* passes the identity check exactly when one of its X-RequestId lines
\* equals the request id: then the turn.end frame completes the session and
\* the audio frame has its payload appended; otherwise the session fails
\* with an identity mismatch. Other frames do neither.
C19_AnyMatchOverRepeatedHeaders ==
  [][nrecv' = nrecv + 1 =>
       /\ (last'.kind = "Text" /\ last'.data \in TurnEndTexts) =>
            IF <<last', request_id>> \in Matching
            THEN state' = "Completed" /\ result' = Ok(buf)
            ELSE IdentityMismatch'
       /\ (last'.kind = "Binary" /\ last'.data \in AudioBinaries) =>
            IF <<last', request_id>> \in Matching
            THEN state' = "Streaming" /\ buf' = buf \o WirePayload(last'.data)
            ELSE IdentityMismatch'
       /\ (last'.kind = "Text" /\ last'.data \notin TurnEndTexts) =>
            state' = "Streaming"
       /\ (last'.kind = "Binary" /\ last'.data \notin AudioBinaries) =>
            buf' = buf /\ ~IdentityMismatch']_vars

\* What follows the first blank line of a text message.
TextBody(s) == Drop(s, Find(s, BlankLine) + Len(BlankLine) - 1)

\* The text messages with a blank line whose body has a Path:turn.end line or
\* an X-RequestId line and whose header block has no Path:turn.end line.
BodyOnlyTexts ==
  {t \in TextMessages \ TurnEndTexts :
     /\ HasBlankLine(t)
     /\ \/ CarriesLine(TextBody(t), PathLine(TurnEnd))
        \/ \E r \in RequestIds : CarriesLine(TextBody(t), RequestIdLine(r))}

\* C20: only the header block of a text message, the part before its first
\* blank line, is consulted: a text message that has Path:turn.end or an
\* X-RequestId line in its body and no Path:turn.end in its header block
\* neither completes nor fails the session, which stays in Streaming with
\* the buffer it had.
C20_TextBodyIsNotConsulted ==
  [][(nrecv' = nrecv + 1 /\ last'.kind = "Text" /\ last'.data \in BodyOnlyTexts)
       => /\ state' = "Streaming"
          /\ result' = Pending
          /\ UNCHANGED buf]_vars

\* A text message with Path:turn.end and the session's request id in its
\* body only was received.
C20_Witness ==
  /\ last.kind = "Text"
  /\ last.data \in BodyOnlyTexts
  /\ CarriesLine(TextBody(last.data), PathLine(TurnEnd))
  /\ CarriesLine(TextBody(last.data), RequestIdLine(request_id))
  /\ state = "Streaming"

====
